---- MODULE Spec2Model ----
(***************************************************************************)
(* Backtracking graph-colouring service (src/back/server.py).              *)
(*                                                                         *)
(* The module models one or two invocations of solve(): the input-policy   *)
(* checks, build_adj, order_nodes, compatible and the recursive            *)
(* backtrack(i) of color_graph_backtracking, unrolled into an explicit     *)
(* frame stack with one action per recorded step or dictionary mutation.   *)
(* Python dictionaries are functions whose DOMAIN is the key set; the      *)
(* insertion order of adj's keys is kept as a sequence next to it.         *)
(***************************************************************************)
EXTENDS Integers, Sequences, FiniteSets, TLC

VARIABLES req, pc, adj, nodes, colors, steps, stack, ret, result, exhausted, bld

vars == <<req, pc, adj, nodes, colors, steps, stack, ret, result, exhausted, bld>>

(* ------------------------------ bounds --------------------------------- *)

\* Number of vertex names the requests are drawn over.
MaxNodes == 4

\* Vertex names and longest edge list of the graph-builder specification
\* (before the repeated edge is inserted).
MaxBuildNodes == 3
MaxEdges == 2

\* Accepted range of k_colors (solve, line 98).
KMin == 2
KMax == 5

\* The default of colors.get(v, -1) in compatible.
Absent == -1

\* color=None of the done step.
None == -2

AllNames == <<"A", "B", "C", "D", "E", "F">>

Procs == {1, 2}

(* ----------------------------- dictionaries ---------------------------- *)

EmptyDict == [x \in {} |-> 0]

Put(d, u, c) == [x \in (DOMAIN d) \cup {u} |-> IF x = u THEN c ELSE d[x]]

\* Mutant of Del: the dictionary is cleared instead of losing one key.
DelAll(d, u) == [x \in {} |-> d[x]]

Del(d, u) == [x \in (DOMAIN d) \ {u} |-> d[x]]

Get(d, v, default) == IF v \in DOMAIN d THEN d[v] ELSE default

Range(s) == {s[j] : j \in 1..Len(s)}

Contains(s, x) == \E j \in 1..Len(s) : s[j] = x

\* The value of a singleton set: binds an intermediate result that is
\* computed once, also where ENABLED is evaluated.
The(S) == CHOOSE x \in S : TRUE

\* Keys of {u: [] for u in nodes} in insertion order: first occurrences.
RECURSIVE KeysOf(_)
KeysOf(ns) ==
    IF ns = <<>> THEN <<>>
    ELSE The({IF Contains(front, ns[Len(ns)]) THEN front ELSE Append(front, ns[Len(ns)]) :
                  front \in {KeysOf(SubSeq(ns, 1, Len(ns) - 1))}})

(* ------------------------------ build_adj ------------------------------ *)

\* Mutant of AddEdge: the membership tests of lines 46 and 48 are left out.
AddEdgeNoDedup(nb, e) ==
    IF e.src \in DOMAIN nb /\ e.dst \in DOMAIN nb /\ e.src # e.dst
    THEN [nb EXCEPT ![e.src] = Append(@, e.dst), ![e.dst] = Append(@, e.src)]
    ELSE nb

\* Mutant of AddEdge: the reverse direction of lines 48-49 is left out.
AddEdgeOneWay(nb, e) ==
    IF e.src \in DOMAIN nb /\ e.dst \in DOMAIN nb /\ e.src # e.dst
    THEN IF ~Contains(nb[e.src], e.dst)
         THEN [nb EXCEPT ![e.src] = Append(@, e.dst)]
         ELSE nb
    ELSE nb

\* Body of the for loop of build_adj for one edge e, on the neighbour map.
AddEdge(nb, e) ==
    IF e.src \in DOMAIN nb /\ e.dst \in DOMAIN nb /\ e.src # e.dst
    THEN LET n1 == IF ~Contains(nb[e.src], e.dst)
                   THEN [nb EXCEPT ![e.src] = Append(@, e.dst)]
                   ELSE nb
         IN IF ~Contains(n1[e.dst], e.src)
            THEN [n1 EXCEPT ![e.dst] = Append(@, e.src)]
            ELSE n1
    ELSE nb

RECURSIVE AddEdges(_, _)
AddEdges(nb, es) ==
    IF es = <<>> THEN nb
    ELSE The({AddEdges(n1, Tail(es)) : n1 \in {AddEdge(nb, Head(es))}})

build_adj(ns, es) ==
    [keys |-> KeysOf(ns),
     nbrs |-> AddEdges([u \in Range(ns) |-> <<>>], es)]

(* ----------------------------- order_nodes ----------------------------- *)

Degree(a, u) == Len(a.nbrs[u])

\* Mutant of InsertByDegree: a sort that puts u in front of the elements of
\* its own degree (not stable).
InsertByDegreeUnstable(a, sorted, u) ==
    LET gt == {j \in 1..Len(sorted) : Degree(a, sorted[j]) > Degree(a, u)}
        at == IF gt = {} THEN 0 ELSE CHOOSE j \in gt : \A l \in gt : l <= j
    IN SubSeq(sorted, 1, at) \o <<u>> \o SubSeq(sorted, at + 1, Len(sorted))

\* sorted(..., key=degree, reverse=True) is stable: u goes after every
\* element already placed whose degree is at least its own.
InsertByDegree(a, sorted, u) ==
    LET ge == {j \in 1..Len(sorted) : Degree(a, sorted[j]) >= Degree(a, u)}
        at == IF ge = {} THEN 0 ELSE CHOOSE j \in ge : \A l \in ge : l <= j
    IN SubSeq(sorted, 1, at) \o <<u>> \o SubSeq(sorted, at + 1, Len(sorted))

RECURSIVE SortedByDegree(_, _)
SortedByDegree(a, ks) ==
    IF ks = <<>> THEN <<>>
    ELSE The({InsertByDegree(a, front, ks[Len(ks)]) :
                  front \in {SortedByDegree(a, SubSeq(ks, 1, Len(ks) - 1))}})

order_nodes(a, order) ==
    IF order = "degree" THEN SortedByDegree(a, a.keys) ELSE a.keys

(* ------------------------------ compatible ----------------------------- *)

\* Mutant of compatible: only the first neighbour is looked at.
compatibleFirstOnly(u, color, cols, a) ==
    \A j \in 1..Len(a.nbrs[u]) : j = 1 => Get(cols, a.nbrs[u][j], Absent) # color

\* Mutant of compatible: the default of get is 0, a colour, in place of -1.
compatibleDefaultZero(u, color, cols, a) ==
    \A j \in 1..Len(a.nbrs[u]) : Get(cols, a.nbrs[u][j], 0) # color

compatible(u, color, cols, a) ==
    \A j \in 1..Len(a.nbrs[u]) : Get(cols, a.nbrs[u][j], Absent) # color

\* The dictionary after colors.get(v, -1): get inserts no key.
AfterGet(d, v) == d

\* The dictionary after the loop of compatible over the neighbours nbrs,
\* which ends at the first neighbour holding the colour.
RECURSIVE AfterCompatible(_, _, _)
AfterCompatible(cols, nbrs, color) ==
    IF nbrs = <<>> THEN cols
    ELSE IF Get(cols, Head(nbrs), Absent) = color
         THEN AfterGet(cols, Head(nbrs))
         ELSE AfterCompatible(AfterGet(cols, Head(nbrs)), Tail(nbrs), color)

(* -------------------------------- steps -------------------------------- *)

\* Step(action=..., node=..., color=..., partial=colors.copy())
Step(action, node, color, cols) ==
    [action |-> action, node |-> node, color |-> color, partial |-> cols]

MsgBadK == "k_colors debe estar entre 2 y 5."
MsgNoNodes == "Debes enviar nodos."
MsgFound == "Solucion encontrada."
MsgNone == "No existe coloreo con k colores."

SolveResponse(ok, cols, st, msg) ==
    [ok |-> ok, colors |-> cols, steps |-> st, message |-> msg]

NoResult == [ok |-> FALSE, colors |-> EmptyDict, steps |-> <<>>, message |-> ""]

NoAdj == [keys |-> <<>>, nbrs |-> EmptyDict]

(* ------------------- color_graph_backtracking, solve ------------------- *)

\* The recursion of backtrack(i) as a function of its arguments: colour c of
\* the loop at depth i, with the dictionary and the trace as they stand.
RECURSIVE backtrack(_, _, _, _, _, _), ColorLoop(_, _, _, _, _, _, _)
backtrack(a, k, ns, i, cols, st) ==
    IF i = Len(ns)
    THEN [ok |-> TRUE, colors |-> cols, steps |-> Append(st, Step("done", "", None, cols))]
    ELSE ColorLoop(a, k, ns, i, 0, cols, st)

ColorLoop(a, k, ns, i, c, cols, st) ==
    IF c >= k THEN [ok |-> FALSE, colors |-> cols, steps |-> st]
    ELSE LET u == ns[i + 1]
             tried == Append(st, Step("try", u, c, cols))
         IN IF compatible(u, c, cols, a)
            THEN LET set == Put(cols, u, c)
                     r == backtrack(a, k, ns, i + 1, set, Append(tried, Step("assign", u, c, set)))
                 IN IF r.ok THEN r
                    ELSE ColorLoop(a, k, ns, i, c + 1, Del(r.colors, u),
                                   Append(r.steps, Step("backtrack", u, c, r.colors)))
            ELSE ColorLoop(a, k, ns, i, c + 1, cols, Append(tried, Step("conflict", u, c, cols)))

color_graph_backtracking(a, k, order) ==
    LET r == backtrack(a, k, order_nodes(a, order), 0, EmptyDict, <<>>)
    IN [ok |-> r.ok, colors |-> IF r.ok THEN r.colors ELSE EmptyDict, steps |-> r.steps]

(* ------------------------------ requests ------------------------------- *)

Edge(s, d) == [src |-> s, dst |-> d]

\* Index pairs of the candidate edges: every unordered pair of names once.
GraphPairs == {<<i, j>> \in (1..MaxNodes) \X (1..MaxNodes) : i < j}

\* Malformed edges: a self-loop and a pair given again with its ends swapped.
NoisePairs == {<<1, 1>>} \cup {<<i, j>> \in {<<2, 1>>} : MaxNodes >= 2}

PairKey(pr) == pr[1] * (MaxNodes + 1) + pr[2]

RECURSIVE EdgesOf(_)
EdgesOf(S) ==
    IF S = {} THEN <<>>
    ELSE LET m == CHOOSE x \in S : \A y \in S : PairKey(x) <= PairKey(y)
         IN <<Edge(AllNames[m[1]], AllNames[m[2]])>> \o EdgesOf(S \ {m})

\* Edge lists of the requests: any graph over the names, and any graph with
\* the edge A-B together with the malformed edges (the self-loop, and A-B
\* given again as B-A).  A request whose vertex list is shorter than
\* MaxNodes sees the pairs naming the remaining vertices as edges with an
\* unknown endpoint.
EdgeLists ==
    {EdgesOf(S) : S \in SUBSET GraphPairs}
        \cup {EdgesOf(S \cup NoisePairs) : S \in {T \in SUBSET GraphPairs : <<1, 2>> \in T}}

NodeLists == {SubSeq(AllNames, 1, n) : n \in 0..MaxNodes}

Orders == {"degree", "natural"}

Request(ns, es, k, o) == [nodes |-> ns, edges |-> es, k_colors |-> k, order |-> o]

Requests ==
    {Request(ns, es, k, o) :
        ns \in NodeLists, es \in EdgeLists, k \in (KMin - 1)..(KMax + 1), o \in Orders}

IdleRequest == Request(<<>>, <<>>, KMin, "degree")

\* req.order or "degree"
OrderOf(r) == IF r.order = "" THEN "degree" ELSE r.order

\* solve as a function of the request: what one invocation returns when it
\* runs on its own.
solve(r) ==
    IF ~(KMin <= r.k_colors /\ r.k_colors <= KMax)
    THEN SolveResponse(FALSE, EmptyDict, <<>>, MsgBadK)
    ELSE IF r.nodes = <<>>
    THEN SolveResponse(FALSE, EmptyDict, <<>>, MsgNoNodes)
    ELSE LET out == color_graph_backtracking(build_adj(r.nodes, r.edges), r.k_colors, OrderOf(r))
         IN SolveResponse(out.ok, out.colors, out.steps, IF out.ok THEN MsgFound ELSE MsgNone)


(* ---------------------------- the invocation --------------------------- *)

Top(p) == stack[p][Len(stack[p])]

\* u = nodes[i] of the running frame (i is 0-based in the code).
CurNode(p) == nodes[p][Top(p).i + 1]

Record(p, action, node, color) ==
    steps' = [steps EXCEPT ![p] = Append(@, Step(action, node, color, colors[p]))]

\* A return of backtrack(i): the frame is popped and the caller resumes at
\* line 79, or at line 88 when the frame was backtrack(0).
Return(p, value) ==
    /\ ret' = [ret EXCEPT ![p] = value]
    /\ stack' = [stack EXCEPT ![p] = SubSeq(@, 1, Len(@) - 1)]
    /\ pc' = [pc EXCEPT ![p] = IF Len(stack[p]) = 1 THEN "l88" ELSE "l79"]

\* Mutant of NextColor: the loop skips a colour.
NextColorSkip(p) ==
    stack' = [stack EXCEPT ![p][Len(stack[p])].c = @ + 2]

NextColor(p) ==
    stack' = [stack EXCEPT ![p][Len(stack[p])].c = @ + 1]

\* solve, lines 98-99.
CheckK(p) ==
    /\ pc[p] = "l98"
    /\ IF ~(KMin <= req[p].k_colors /\ req[p].k_colors <= KMax)
       THEN /\ result' = [result EXCEPT ![p] = SolveResponse(FALSE, EmptyDict, <<>>, MsgBadK)]
            /\ pc' = [pc EXCEPT ![p] = "returned"]
       ELSE /\ pc' = [pc EXCEPT ![p] = "l100"]
            /\ UNCHANGED result
    /\ UNCHANGED <<req, adj, nodes, colors, steps, stack, ret, exhausted, bld>>

\* Mutant of CheckNodes: the empty vertex list is not rejected.
CheckNodesSkipped(p) ==
    /\ pc[p] = "l100"
    /\ pc' = [pc EXCEPT ![p] = "l102"]
    /\ UNCHANGED <<req, adj, nodes, colors, steps, stack, ret, result, exhausted, bld>>

\* solve, lines 100-101.
CheckNodes(p) ==
    /\ pc[p] = "l100"
    /\ IF req[p].nodes = <<>>
       THEN /\ result' = [result EXCEPT ![p] = SolveResponse(FALSE, EmptyDict, <<>>, MsgNoNodes)]
            /\ pc' = [pc EXCEPT ![p] = "returned"]
       ELSE /\ pc' = [pc EXCEPT ![p] = "l102"]
            /\ UNCHANGED result
    /\ UNCHANGED <<req, adj, nodes, colors, steps, stack, ret, exhausted, bld>>

\* solve, line 102.
BuildAdj(p) ==
    /\ pc[p] = "l102"
    /\ adj' = [adj EXCEPT ![p] = build_adj(req[p].nodes, req[p].edges)]
    /\ pc' = [pc EXCEPT ![p] = "l65"]
    /\ UNCHANGED <<req, nodes, colors, steps, stack, ret, result, exhausted, bld>>

\* Mutant of StartSearch: the vertices are taken in the iteration order of a
\* set, which one run need not share with the next.
StartSearchAnyOrder(p) ==
    /\ pc[p] = "l65"
    /\ \E ns \in [1..Len(adj[p].keys) -> Range(adj[p].keys)] :
           /\ Range(ns) = Range(adj[p].keys)
           /\ nodes' = [nodes EXCEPT ![p] = ns]
    /\ colors' = [colors EXCEPT ![p] = EmptyDict]
    /\ steps' = [steps EXCEPT ![p] = <<>>]
    /\ stack' = [stack EXCEPT ![p] = <<[i |-> 0, c |-> 0]>>]
    /\ pc' = [pc EXCEPT ![p] = "l70"]
    /\ UNCHANGED <<req, adj, ret, result, exhausted, bld>>

\* Mutant of StartSearch: the loop of the first frame starts at colour 1.
StartSearchFromOne(p) ==
    /\ pc[p] = "l65"
    /\ nodes' = [nodes EXCEPT ![p] = order_nodes(adj[p], OrderOf(req[p]))]
    /\ colors' = [colors EXCEPT ![p] = EmptyDict]
    /\ steps' = [steps EXCEPT ![p] = <<>>]
    /\ stack' = [stack EXCEPT ![p] = <<[i |-> 0, c |-> 1]>>]
    /\ pc' = [pc EXCEPT ![p] = "l70"]
    /\ UNCHANGED <<req, adj, ret, result, exhausted, bld>>

\* color_graph_backtracking, lines 65-67 and the call backtrack(0) of line 88.
StartSearch(p) ==
    /\ pc[p] = "l65"
    /\ nodes' = [nodes EXCEPT ![p] = order_nodes(adj[p], OrderOf(req[p]))]
    /\ colors' = [colors EXCEPT ![p] = EmptyDict]
    /\ steps' = [steps EXCEPT ![p] = <<>>]
    /\ stack' = [stack EXCEPT ![p] = <<[i |-> 0, c |-> 0]>>]
    /\ pc' = [pc EXCEPT ![p] = "l70"]
    /\ UNCHANGED <<req, adj, ret, result, exhausted, bld>>

\* backtrack, lines 70-72: every vertex is coloured.
Done(p) ==
    /\ pc[p] = "l70"
    /\ Top(p).i = Len(nodes[p])
    /\ Record(p, "done", "", None)
    /\ Return(p, TRUE)
    /\ UNCHANGED <<req, adj, nodes, colors, result, exhausted, bld>>

\* The frame is in the colour loop of lines 74-85: it has just been entered
\* with uncoloured vertices left (line 70 is false, line 73), or is back at
\* the loop head.
InLoop(p) ==
    \/ pc[p] = "l74"
    \/ pc[p] = "l70" /\ Top(p).i # Len(nodes[p])

\* backtrack, lines 74-75: the next colour of range(k) is tried.
Try(p) ==
    /\ InLoop(p)
    /\ Top(p).c < req[p].k_colors
    /\ Record(p, "try", CurNode(p), Top(p).c)
    /\ pc' = [pc EXCEPT ![p] = "l76"]
    /\ UNCHANGED <<req, adj, nodes, colors, stack, ret, result, exhausted, bld>>

\* backtrack, line 86: range(k) is used up.
Exhausted(p) ==
    /\ InLoop(p)
    /\ Top(p).c >= req[p].k_colors
    /\ Return(p, FALSE)
    /\ exhausted' = [exhausted EXCEPT ![p] = @ \cup {CurNode(p)}]
    /\ UNCHANGED <<req, adj, nodes, colors, steps, result, bld>>

\* Mutant of SetColor: colors is one dictionary shared by all invocations.
SetColorShared(p) ==
    /\ pc[p] = "l76"
    /\ compatible(CurNode(p), Top(p).c, colors[p], adj[p])
    /\ colors' = [q \in Procs |-> Put(colors[q], CurNode(p), Top(p).c)]
    /\ pc' = [pc EXCEPT ![p] = "l78"]
    /\ UNCHANGED <<req, adj, nodes, steps, stack, ret, result, exhausted, bld>>

\* backtrack, lines 76-77: the colour is compatible and is committed.
SetColor(p) ==
    /\ pc[p] = "l76"
    /\ compatible(CurNode(p), Top(p).c, colors[p], adj[p])
    /\ colors' = [colors EXCEPT ![p] = Put(@, CurNode(p), Top(p).c)]
    /\ pc' = [pc EXCEPT ![p] = "l78"]
    /\ UNCHANGED <<req, adj, nodes, steps, stack, ret, result, exhausted, bld>>

\* Mutant of Conflict: the conflict step is not recorded.
ConflictSilent(p) ==
    /\ pc[p] = "l76"
    /\ ~compatible(CurNode(p), Top(p).c, colors[p], adj[p])
    /\ NextColor(p)
    /\ pc' = [pc EXCEPT ![p] = "l74"]
    /\ UNCHANGED <<req, adj, nodes, colors, steps, ret, result, exhausted, bld>>

\* backtrack, lines 84-85: the colour clashes with a coloured neighbour.
Conflict(p) ==
    /\ pc[p] = "l76"
    /\ ~compatible(CurNode(p), Top(p).c, colors[p], adj[p])
    /\ Record(p, "conflict", CurNode(p), Top(p).c)
    /\ NextColor(p)
    /\ pc' = [pc EXCEPT ![p] = "l74"]
    /\ UNCHANGED <<req, adj, nodes, colors, ret, result, exhausted, bld>>

\* Mutant of Assign: the assign step is not recorded.
AssignSilent(p) ==
    /\ pc[p] = "l78"
    /\ stack' = [stack EXCEPT ![p] = Append(@, [i |-> Top(p).i + 1, c |-> 0])]
    /\ pc' = [pc EXCEPT ![p] = "l70"]
    /\ UNCHANGED <<req, adj, nodes, colors, steps, ret, result, exhausted, bld>>

\* backtrack, lines 78-79: the assign step is recorded and backtrack(i + 1)
\* is called.
Assign(p) ==
    /\ pc[p] = "l78"
    /\ Record(p, "assign", CurNode(p), Top(p).c)
    /\ stack' = [stack EXCEPT ![p] = Append(@, [i |-> Top(p).i + 1, c |-> 0])]
    /\ pc' = [pc EXCEPT ![p] = "l70"]
    /\ UNCHANGED <<req, adj, nodes, colors, ret, result, exhausted, bld>>

\* Mutant of ChildTrue: the value of the recursive call is not looked at and
\* the colour is undone as after a failure.
ChildTrueIgnored(p) ==
    /\ pc[p] = "l79"
    /\ ret[p]
    /\ Record(p, "backtrack", CurNode(p), Top(p).c)
    /\ pc' = [pc EXCEPT ![p] = "l83"]
    /\ UNCHANGED <<req, adj, nodes, colors, stack, ret, result, exhausted, bld>>

\* backtrack, lines 79-80: the recursive call returned True.
ChildTrue(p) ==
    /\ pc[p] = "l79"
    /\ ret[p]
    /\ Return(p, TRUE)
    /\ UNCHANGED <<req, adj, nodes, colors, steps, result, exhausted, bld>>

\* Mutant of Backtrack: the undo is made without a backtrack step.
BacktrackSilent(p) ==
    /\ pc[p] = "l79"
    /\ ~ret[p]
    /\ pc' = [pc EXCEPT ![p] = "l83"]
    /\ UNCHANGED <<req, adj, nodes, colors, steps, stack, ret, result, exhausted, bld>>

\* backtrack, lines 79-82: the recursive call returned False.
Backtrack(p) ==
    /\ pc[p] = "l79"
    /\ ~ret[p]
    /\ Record(p, "backtrack", CurNode(p), Top(p).c)
    /\ pc' = [pc EXCEPT ![p] = "l83"]
    /\ UNCHANGED <<req, adj, nodes, colors, stack, ret, result, exhausted, bld>>

\* Mutant of Undo: the vertex is not removed from colors.
UndoKeep(p) ==
    /\ pc[p] = "l83"
    /\ NextColor(p)
    /\ pc' = [pc EXCEPT ![p] = "l74"]
    /\ UNCHANGED <<req, adj, nodes, colors, steps, ret, result, exhausted, bld>>

\* Mutant of Undo: after the first undo the loop is left (no colour is tried
\* any more at this depth).
UndoGiveUp(p) ==
    /\ pc[p] = "l83"
    /\ colors' = [colors EXCEPT ![p] = Del(@, CurNode(p))]
    /\ stack' = [stack EXCEPT ![p][Len(stack[p])].c = req[p].k_colors]
    /\ pc' = [pc EXCEPT ![p] = "l74"]
    /\ UNCHANGED <<req, adj, nodes, steps, ret, result, exhausted, bld>>

\* Mutant of Undo: the steps hold the live dictionary instead of a copy, so
\* the deletion shows in every recorded snapshot.
UndoAliased(p) ==
    /\ pc[p] = "l83"
    /\ colors' = [colors EXCEPT ![p] = Del(@, CurNode(p))]
    /\ steps' = [steps EXCEPT ![p] =
            [j \in 1..Len(@) |-> [@[j] EXCEPT !.partial = Del(@, CurNode(p))]]]
    /\ NextColor(p)
    /\ pc' = [pc EXCEPT ![p] = "l74"]
    /\ UNCHANGED <<req, adj, nodes, ret, result, exhausted, bld>>

\* Mutant of Undo: the loop does not move on, the same colour is tried again.
UndoRetry(p) ==
    /\ pc[p] = "l83"
    /\ colors' = [colors EXCEPT ![p] = Del(@, CurNode(p))]
    /\ pc' = [pc EXCEPT ![p] = "l74"]
    /\ UNCHANGED <<req, adj, nodes, stack, steps, ret, result, exhausted, bld>>

\* backtrack, line 83, and the loop's step to the next colour.
Undo(p) ==
    /\ pc[p] = "l83"
    /\ colors' = [colors EXCEPT ![p] = Del(@, CurNode(p))]
    /\ NextColor(p)
    /\ pc' = [pc EXCEPT ![p] = "l74"]
    /\ UNCHANGED <<req, adj, nodes, steps, ret, result, exhausted, bld>>

\* Mutant of Respond: the message does not depend on ok.
RespondAlwaysFound(p) ==
    /\ pc[p] = "l88"
    /\ result' = [result EXCEPT ![p] =
            SolveResponse(ret[p], IF ret[p] THEN colors[p] ELSE EmptyDict, steps[p], MsgFound)]
    /\ pc' = [pc EXCEPT ![p] = "returned"]
    /\ UNCHANGED <<req, adj, nodes, colors, steps, stack, ret, exhausted, bld>>

\* color_graph_backtracking, lines 88-89, and solve, lines 103-105.
Respond(p) ==
    /\ pc[p] = "l88"
    /\ result' = [result EXCEPT ![p] =
            SolveResponse(ret[p],
                          IF ret[p] THEN colors[p] ELSE EmptyDict,
                          steps[p],
                          IF ret[p] THEN MsgFound ELSE MsgNone)]
    /\ pc' = [pc EXCEPT ![p] = "returned"]
    /\ UNCHANGED <<req, adj, nodes, colors, steps, stack, ret, exhausted, bld>>

Invoke(p) ==
    \/ CheckK(p) \/ CheckNodes(p) \/ BuildAdj(p) \/ StartSearch(p)
    \/ Done(p) \/ Try(p) \/ Exhausted(p)
    \/ SetColor(p) \/ Conflict(p) \/ Assign(p)
    \/ ChildTrue(p) \/ Backtrack(p) \/ Undo(p) \/ Respond(p)

NoBuild == [pc |-> "off"]

InitLocals ==
    /\ adj = [p \in Procs |-> NoAdj]
    /\ nodes = [p \in Procs |-> <<>>]
    /\ colors = [p \in Procs |-> EmptyDict]
    /\ steps = [p \in Procs |-> <<>>]
    /\ stack = [p \in Procs |-> <<>>]
    /\ ret = [p \in Procs |-> FALSE]
    /\ result = [p \in Procs |-> NoResult]
    /\ exhausted = [p \in Procs |-> {}]

\* One invocation of solve on any request; the second slot stays idle.
Init ==
    /\ \E r \in Requests : req = [p \in Procs |-> IF p = 1 THEN r ELSE IdleRequest]
    /\ pc = [p \in Procs |-> IF p = 1 THEN "l98" ELSE "idle"]
    /\ InitLocals
    /\ bld = NoBuild

Next == \E p \in Procs : Invoke(p)

Spec == Init /\ [][Next]_vars

(* ------------------------ two invocations at once ---------------------- *)

\* The interpreter runs the one thread of a call until it returns: a step
\* that can be taken is taken.
SpecFair == Spec /\ WF_vars(Next)

Triangle == <<Edge("A", "B"), Edge("A", "C"), Edge("B", "C")>>

\* Requests of the two concurrent invocations: an unsatisfiable one, one
\* that succeeds at once, one that succeeds after undoing colours (the path
\* A-C-D-B taken in input order), and one rejected by each policy check.
ConcRequests ==
    {Request(<<"A", "B", "C">>, Triangle, 2, "degree"),
     Request(<<"A", "B", "C">>, <<Edge("B", "C"), Edge("C", "B"), Edge("A", "C")>>, 2, "degree"),
     Request(<<"A", "B", "C", "D">>,
             <<Edge("A", "C"), Edge("C", "D"), Edge("D", "B")>>, 2, "natural"),
     Request(<<>>, <<>>, 2, "natural"),
     Request(<<"A", "B">>, <<Edge("A", "B")>>, 6, "degree")}

InitConc ==
    /\ req \in [Procs -> ConcRequests]
    /\ pc = [p \in Procs |-> "l98"]
    /\ InitLocals
    /\ bld = NoBuild

\* The invocations run in threads of their own; their steps interleave freely.
SpecConc == InitConc /\ [][Next]_vars

(* --------------------------- build_adj on its own ---------------------- *)

BuildNames == {AllNames[j] : j \in 1..MaxBuildNodes}

RECURSIVE SeqsUpTo(_, _)
SeqsUpTo(S, n) ==
    IF n = 0 THEN {<<>>}
    ELSE LET shorter == SeqsUpTo(S, n - 1)
         IN shorter \cup {Append(q, x) : q \in shorter, x \in S}

BuildEdgeLists == SeqsUpTo({Edge(a, b) : a, b \in BuildNames}, MaxEdges)

BuildNodeLists == {SubSeq(AllNames, 1, n) : n \in 0..MaxBuildNodes}

Swapped(e) == Edge(e.dst, e.src)

InsertAfter(es, at, e) == SubSeq(es, 1, at) \o <<e>> \o SubSeq(es, at + 1, Len(es))

\* The edge list with its edge number `which` supplied once more after
\* position `at`, its ends swapped or not; which = 0 repeats nothing.
WithRepeat(b) ==
    IF b.which = 0 THEN b.edges
    ELSE InsertAfter(b.edges, b.at,
                     IF b.swap THEN Swapped(b.edges[b.which]) ELSE b.edges[b.which])

InitBuild ==
    /\ \E ns \in BuildNodeLists, es \in BuildEdgeLists :
         \E which \in 0..Len(es), at \in 0..Len(es), swap \in BOOLEAN :
            /\ (which = 0 => at = 0 /\ ~swap)
            /\ which <= at
            /\ bld = [pc |-> "b0", nodes |-> ns, edges |-> es,
                      which |-> which, at |-> at, swap |-> swap,
                      out |-> NoAdj, outRepeat |-> NoAdj]
    /\ req = [p \in Procs |-> IdleRequest]
    /\ pc = [p \in Procs |-> "idle"]
    /\ InitLocals

\* build_adj applied to the edge list and to the list with the repeat.
Build ==
    /\ bld.pc = "b0"
    /\ bld' = [bld EXCEPT !.pc = "b1",
                          !.out = build_adj(bld.nodes, bld.edges),
                          !.outRepeat = build_adj(bld.nodes, WithRepeat(bld))]
    /\ UNCHANGED <<req, pc, adj, nodes, colors, steps, stack, ret, result, exhausted>>

NextBuild == Build

SpecBuild == InitBuild /\ [][NextBuild]_vars

(* --------------------------- compatible on its own --------------------- *)

\* The colours of a 3-colouring.
CompatColors == 0..KMin

\* The graphs build_adj returns for the small inputs.
CompatGraphs == {build_adj(ns, es) : ns \in BuildNodeLists \ {<<>>}, es \in BuildEdgeLists}

\* Any graph, any vertex of it, any colour, any assignment of colours to some
\* of the vertices.
InitCompat ==
    /\ \E a \in CompatGraphs :
         \E u \in Range(a.keys), c \in CompatColors, S \in SUBSET Range(a.keys) :
            \E d \in [S -> CompatColors] :
               bld = [pc |-> "c0", adj |-> a, u |-> u, color |-> c, cols |-> d,
                      out |-> FALSE, colsAfter |-> EmptyDict, adjAfter |-> NoAdj]
    /\ req = [p \in Procs |-> IdleRequest]
    /\ pc = [p \in Procs |-> "idle"]
    /\ InitLocals

\* compatible(u, color, colors, adj), lines 58-62; adj is only read.
Compat ==
    /\ bld.pc = "c0"
    /\ bld' = [bld EXCEPT !.pc = "c1",
                          !.out = compatible(bld.u, bld.color, bld.cols, bld.adj),
                          !.colsAfter = AfterCompatible(bld.cols, bld.adj.nbrs[bld.u], bld.color),
                          !.adjAfter = bld.adj]
    /\ UNCHANGED <<req, pc, adj, nodes, colors, steps, stack, ret, result, exhausted>>

NextCompat == Compat

SpecCompat == InitCompat /\ [][NextCompat]_vars

(* ------------------------- reading a finished run ---------------------- *)

Returned(p) == pc[p] = "returned"

\* The request passes both input-policy checks, so the search is run.
Admitted(r) == r.k_colors \in 2..5 /\ r.nodes # <<>>

\* Edges of the request that survive the filter: known, distinct endpoints.
ValidEdges(r) ==
    {r.edges[j] : j \in {l \in 1..Len(r.edges) :
        /\ r.edges[l].src \in Range(r.nodes)
        /\ r.edges[l].dst \in Range(r.nodes)
        /\ r.edges[l].src # r.edges[l].dst}}

ProperOn(es, f) == \A e \in es : f[e.src] # f[e.dst]

Proper(r, f) == ProperOn(ValidEdges(r), f)

\* Some assignment of colours of [0,k) to the vertices is proper.
Colorable(r) ==
    LET es == ValidEdges(r)
    IN \E f \in [Range(r.nodes) -> 0..(r.k_colors - 1)] : ProperOn(es, f)

HasStep(st, action) == \E j \in 1..Len(st) : st[j].action = action

HasStepOn(st, action, u) ==
    \E j \in 1..Len(st) : st[j].action = action /\ st[j].node = u

(* C1: whenever solve returns success, the returned assignment colours every
   input vertex with one colour of [0,k), and the two ends of every edge of
   the filtered graph (the neighbour lists of build_adj, and the well-formed
   edges of the request) carry different colours. *)
C1_Validity ==
    \A p \in Procs :
        (Returned(p) /\ result[p].ok) =>
            /\ DOMAIN result[p].colors = Range(req[p].nodes)
            /\ \A u \in DOMAIN result[p].colors :
                   result[p].colors[u] \in 0..(req[p].k_colors - 1)
            /\ \A u \in DOMAIN adj[p].nbrs : \A j \in 1..Len(adj[p].nbrs[u]) :
                   result[p].colors[u] # result[p].colors[adj[p].nbrs[u][j]]
            /\ Proper(req[p], result[p].colors)

\* A success found only after a colour had to be undone.
C1_Witness ==
    /\ Returned(1) /\ result[1].ok
    /\ ValidEdges(req[1]) # {}
    /\ HasStep(result[1].steps, "backtrack")

(* C2: for a request that is searched (k in 2..5, vertices non-empty) the
   search returns success exactly when the filtered graph has a proper
   colouring with colours in [0,k). *)
C2_Completeness ==
    \A p \in Procs :
        (Returned(p) /\ Admitted(req[p])) => (result[p].ok <=> Colorable(req[p]))

\* A failure proved on the complete graph on four vertices with k = 3.
C2_Witness ==
    /\ Returned(1) /\ ~result[1].ok
    /\ req[1].k_colors = 3
    /\ Cardinality(ValidEdges(req[1])) = 6
    /\ HasStep(result[1].steps, "backtrack")

\* Some neighbour of u comes before u in the search order.
HasEarlierNeighbour(p, u) ==
    \E j \in 1..Len(adj[p].nbrs[u]) :
        \E a, b \in 1..Len(nodes[p]) :
            a < b /\ nodes[p][a] = adj[p].nbrs[u][j] /\ nodes[p][b] = u

(* C3 as stated: on a graph that needs more than k colours the search fails
   with a non-empty trace that holds a conflict step for every exhausted
   vertex. *)
C3_ConflictPerExhausted ==
    \A p \in Procs :
        (Returned(p) /\ Admitted(req[p]) /\ ~Colorable(req[p])) =>
            /\ ~result[p].ok
            /\ result[p].steps # <<>>
            /\ \A u \in exhausted[p] : HasStepOn(result[p].steps, "conflict", u)

(* C3 amended: on a graph that needs more than k colours the search fails
   with a non-empty trace holding at least one conflict step, and a conflict
   step for every exhausted vertex that has a neighbour earlier in the search
   order; the first vertex of the order is exhausted without any. *)
C3_ConflictPerConstrained ==
    \A p \in Procs :
        (Returned(p) /\ Admitted(req[p]) /\ ~Colorable(req[p])) =>
            /\ ~result[p].ok
            /\ result[p].steps # <<>>
            /\ HasStep(result[p].steps, "conflict")
            /\ nodes[p][1] \in exhausted[p]
            /\ ~HasStepOn(result[p].steps, "conflict", nodes[p][1])
            /\ \A u \in exhausted[p] :
                   HasEarlierNeighbour(p, u) => HasStepOn(result[p].steps, "conflict", u)

\* The triangle with k = 2: all three vertices are exhausted.
C3_Witness ==
    /\ Returned(1) /\ ~result[1].ok
    /\ req[1].k_colors = 2
    /\ Len(req[1].nodes) = 3
    /\ Cardinality(ValidEdges(req[1])) = 3
    /\ exhausted[1] = Range(req[1].nodes)

IsPrefix(s, t) == Len(s) <= Len(t) /\ SubSeq(t, 1, Len(s)) = s

(* C4: two invocations given the same vertex list, edge list, k and order
   record the same steps index by index (action, vertex, colour and
   snapshot) and return the same success flag, assignment and trace. *)
C4_Determinism ==
    \A p, q \in Procs :
        req[p] = req[q] =>
            /\ IsPrefix(steps[p], steps[q]) \/ IsPrefix(steps[q], steps[p])
            /\ (Returned(p) /\ Returned(q)) => result[p] = result[q]

\* Two searches of the same satisfiable request have both returned after
\* undoing colours.
C4_Witness ==
    /\ req[1] = req[2]
    /\ Returned(1) /\ Returned(2)
    /\ result[1].ok
    /\ HasStep(result[2].steps, "backtrack")

\* Every assign step's snapshot maps its vertex to its colour.
AssignSnapshotsKept ==
    \A p \in Procs : \A j \in 1..Len(steps[p]) :
        steps[p][j].action = "assign" =>
            /\ steps[p][j].node \in DOMAIN steps[p][j].partial
            /\ steps[p][j].partial[steps[p][j].node] = steps[p][j].color

(* C5: the trace only grows: every step of the program leaves the steps
   recorded so far, snapshots included, as a prefix of the trace; the
   snapshot of an assign(u,c) step maps u to c for good, also once u is
   removed from the live assignment; the returned trace is that trace. *)
C5_SnapshotIsolation ==
    /\ [][\A p \in Procs : IsPrefix(steps[p], steps'[p])]_vars
    /\ [](AssignSnapshotsKept)
    /\ [](\A p \in Procs : (Returned(p) /\ Admitted(req[p])) => result[p].steps = steps[p])

\* assign(u,c) is followed by backtrack(u,c), u is gone from the live
\* assignment, and the assign step still shows u coloured c.
C5_Witness ==
    \E j \in 1..Len(steps[1]) : \E l \in (j + 1)..Len(steps[1]) :
        /\ steps[1][j].action = "assign"
        /\ steps[1][l].action = "backtrack"
        /\ steps[1][l].node = steps[1][j].node
        /\ steps[1][l].color = steps[1][j].color
        /\ steps[1][j].node \notin DOMAIN colors[1]
        /\ steps[1][j].partial[steps[1][j].node] = steps[1][j].color

(* C6: a request with k outside 2..5 or with no vertex is answered with
   success=false, an empty assignment, an empty trace and a validation
   message; no graph is built and no step is ever recorded for it; the k
   check comes first, so a request failing both gets the k message. *)
C6_InputPolicy ==
    \A p \in Procs :
        ~Admitted(req[p]) =>
            /\ adj[p] = NoAdj /\ nodes[p] = <<>> /\ steps[p] = <<>> /\ stack[p] = <<>>
            /\ Returned(p) =>
                   /\ result[p] = SolveResponse(FALSE, EmptyDict, <<>>,
                          IF req[p].k_colors \in 2..5 THEN MsgNoNodes ELSE MsgBadK)
                   /\ result[p].message # "" /\ result[p].message # MsgNone

\* A request that fails both checks has been answered.
C6_Witness ==
    /\ Returned(1)
    /\ req[1].k_colors \notin 2..5
    /\ req[1].nodes = <<>>
    /\ result[1].message = MsgBadK

(* C7: when the search is run and fails, the returned assignment is empty,
   the trace is non-empty and holds no done step, and the message is the
   no-colouring message, which is neither validation message. *)
C7_Unsatisfiable ==
    \A p \in Procs :
        (Returned(p) /\ Admitted(req[p]) /\ ~result[p].ok) =>
            /\ result[p].colors = EmptyDict
            /\ result[p].steps # <<>>
            /\ ~HasStep(result[p].steps, "done")
            /\ result[p].message = MsgNone
            /\ MsgNone \notin {MsgBadK, MsgNoNodes}

\* A failed search that went through at least one undo.
C7_Witness ==
    /\ Returned(1) /\ Admitted(req[1]) /\ ~result[1].ok
    /\ HasStep(result[1].steps, "backtrack")
    /\ HasStep(result[1].steps, "conflict")

(* C8: with the steps of two invocations interleaved in any way, each one
   records at every moment a prefix of the trace it records when run alone,
   and returns exactly the success flag, assignment, trace and message it
   returns when run alone. *)
C8_Isolation ==
    \A p \in Procs :
        /\ IsPrefix(steps[p], solve(req[p]).steps)
        /\ Returned(p) => result[p] = solve(req[p])

\* Two different searches have both returned, one failed and one succeeded.
C8_Witness ==
    /\ Returned(1) /\ Returned(2)
    /\ Admitted(req[1]) /\ Admitted(req[2])
    /\ req[1] # req[2]
    /\ result[1].ok /\ ~result[2].ok

NeighbourSet(a, u) == Range(a.nbrs[u])

(* C9: build_adj returns the same keys and the same neighbour lists, in the
   same order, when an edge of the list is supplied once more later in the
   list, as it is or with its ends swapped. *)
C9_IdempotentBuild ==
    bld.pc = "b1" => bld.outRepeat = bld.out

\* A well-formed edge was repeated with its ends swapped, another edge lying
\* between the two.
C9_Witness ==
    /\ bld.pc = "b1"
    /\ bld.which = 1 /\ bld.at = 2 /\ bld.swap
    /\ bld.edges[1] \in ValidEdges(bld)
    /\ bld.edges[2] \in ValidEdges(bld)
    /\ bld.edges[2] \notin {bld.edges[1], Swapped(bld.edges[1])}

(* C10: the structure build_adj returns has exactly the input vertices as
   keys, each once; no vertex is its own neighbour; every neighbour is an
   input vertex; no neighbour is listed twice; v is a neighbour of u iff u
   is one of v; and the neighbours of u are exactly the other ends of the
   well-formed edges at u, so self-loops and edges naming an unknown vertex
   contribute nothing. *)
C10_WellFormedAdj ==
    bld.pc = "b1" =>
        LET a == bld.out IN
        /\ Range(a.keys) = Range(bld.nodes)
        /\ DOMAIN a.nbrs = Range(bld.nodes)
        /\ \A i, j \in 1..Len(a.keys) : a.keys[i] = a.keys[j] => i = j
        /\ \A u \in DOMAIN a.nbrs :
            /\ u \notin NeighbourSet(a, u)
            /\ NeighbourSet(a, u) \subseteq Range(bld.nodes)
            /\ \A i, j \in 1..Len(a.nbrs[u]) : a.nbrs[u][i] = a.nbrs[u][j] => i = j
            /\ \A v \in DOMAIN a.nbrs : v \in NeighbourSet(a, u) <=> u \in NeighbourSet(a, v)
            /\ NeighbourSet(a, u) =
                   {v \in Range(bld.nodes) :
                       \E e \in ValidEdges(bld) : {e.src, e.dst} = {u, v}}

\* A list holding a self-loop on an input vertex and a well-formed edge has
\* been built, and only the latter shows in the structure.
C10_Witness ==
    /\ bld.pc = "b1"
    /\ \E j \in 1..Len(bld.edges) :
           bld.edges[j].src = bld.edges[j].dst /\ bld.edges[j].src \in Range(bld.nodes)
    /\ \E u \in DOMAIN bld.out.nbrs : bld.out.nbrs[u] # <<>>

\* The search order of the invocation has been computed (line 65).
Ordered(p) ==
    Admitted(req[p]) /\ pc[p] \notin {"idle", "l98", "l100", "l102", "l65"}

\* Position of vertex u in the sequence s.
IndexIn(s, u) == CHOOSE j \in 1..Len(s) : s[j] = u

(* C11: order_nodes returns a permutation of the graph's vertices; with
   strategy natural it is the input order; with strategy degree the
   neighbour counts never increase along it and two vertices of equal degree
   keep their input order, so a graph whose vertices all have the same
   degree comes back in input order. *)
C11_VertexOrdering ==
    \A p \in Procs :
        Ordered(p) =>
            LET ns == nodes[p]
                deg(u) == Len(adj[p].nbrs[u])
            IN /\ Len(ns) = Len(req[p].nodes)
               /\ Range(ns) = Range(req[p].nodes)
               /\ req[p].order = "natural" => ns = req[p].nodes
               /\ req[p].order = "degree" =>
                      \A a, b \in 1..Len(ns) :
                          a < b =>
                              /\ deg(ns[a]) >= deg(ns[b])
                              /\ deg(ns[a]) = deg(ns[b]) =>
                                     IndexIn(req[p].nodes, ns[a]) < IndexIn(req[p].nodes, ns[b])
               /\ (\A u, v \in Range(ns) : deg(u) = deg(v)) => ns = req[p].nodes

\* The degree order moved a vertex forward and left two vertices of equal
\* degree to their input order.
C11_Witness ==
    /\ Ordered(1)
    /\ req[1].order = "degree"
    /\ nodes[1] # req[1].nodes
    /\ \E a, b \in 1..Len(nodes[1]) :
           a < b /\ Len(adj[1].nbrs[nodes[1][a]]) = Len(adj[1].nbrs[nodes[1][b]])

\* The first n vertices of the sequence s, all coloured 0.
AllZero(s, n) == [u \in {s[j] : j \in 1..n} |-> 0]

(* C12: for a non-empty vertex list with an empty edge list, k in 2..5 and
   order natural, solve returns success with every vertex coloured 0, and the
   trace has no conflict and no backtrack step: it is try, assign for each
   vertex in input order, then one done. *)
C12_EdgeFree ==
    \A p \in Procs :
        (Returned(p) /\ Admitted(req[p]) /\ req[p].edges = <<>> /\ req[p].order = "natural") =>
            LET ns == req[p].nodes
                n == Len(ns)
                st == result[p].steps
            IN /\ result[p].ok
               /\ result[p].message = MsgFound
               /\ result[p].colors = AllZero(ns, n)
               /\ ~HasStep(st, "conflict") /\ ~HasStep(st, "backtrack")
               /\ Len(st) = 2 * n + 1
               /\ \A i \in 1..n :
                      /\ st[2 * i - 1] = Step("try", ns[i], 0, AllZero(ns, i - 1))
                      /\ st[2 * i] = Step("assign", ns[i], 0, AllZero(ns, i))
               /\ st[2 * n + 1] = Step("done", "", None, AllZero(ns, n))

\* Four vertices without edges, k = 2, natural order, answered.
C12_Witness ==
    /\ Returned(1)
    /\ Len(req[1].nodes) = 4 /\ req[1].edges = <<>>
    /\ req[1].k_colors = 2 /\ req[1].order = "natural"
    /\ Len(result[1].steps) = 9

\* Some neighbour of u holds colour c in the snapshot.
NeighbourHolds(a, u, c, snapshot) ==
    \E j \in 1..Len(a.nbrs[u]) :
        a.nbrs[u][j] \in DOMAIN snapshot /\ snapshot[a.nbrs[u][j]] = c

(* C13: in the returned trace every try(u,c) step has a snapshot without u
   and is immediately followed by conflict(u,c) with the same snapshot or by
   assign(u,c) with the snapshot extended by u -> c, conflict exactly when a
   neighbour of u holds c in the snapshot; a try of colour 0 opens a visit
   (first step, or right after the assign of the vertex before u), and a try
   of colour c > 0 comes right after conflict(u,c-1) or backtrack(u,c-1), so
   the colours of one visit are 0, 1, 2, ... *)
C13_TryProtocol ==
    \A p \in Procs :
        (Returned(p) /\ Admitted(req[p])) =>
            LET st == result[p].steps IN
            \A j \in 1..Len(st) :
                st[j].action = "try" =>
                    LET u == st[j].node
                        c == st[j].color
                        snap == st[j].partial
                    IN /\ u \notin DOMAIN snap
                       /\ c \in 0..(req[p].k_colors - 1)
                       /\ j < Len(st)
                       /\ st[j + 1].node = u /\ st[j + 1].color = c
                       /\ \/ st[j + 1].action = "conflict" /\ st[j + 1].partial = snap
                          \/ st[j + 1].action = "assign" /\ st[j + 1].partial = Put(snap, u, c)
                       /\ st[j + 1].action = "conflict" <=> NeighbourHolds(adj[p], u, c, snap)
                       /\ c = 0 =>
                              \/ j = 1 /\ u = nodes[p][1]
                              \/ /\ j > 1 /\ st[j - 1].action = "assign"
                                 /\ IndexIn(nodes[p], st[j - 1].node) + 1 = IndexIn(nodes[p], u)
                       /\ c > 0 =>
                              /\ st[j - 1].action \in {"conflict", "backtrack"}
                              /\ st[j - 1].node = u /\ st[j - 1].color = c - 1

\* A returned trace in which one vertex was tried with colours 0, 1 and 2,
\* after a conflict and after a backtrack.
C13_Witness ==
    /\ Returned(1) /\ Admitted(req[1])
    /\ \E j \in 2..Len(result[1].steps) : \E l \in 2..Len(result[1].steps) :
           /\ result[1].steps[j].action = "try" /\ result[1].steps[j].color = 2
           /\ result[1].steps[j - 1].action = "conflict"
           /\ result[1].steps[l].action = "try" /\ result[1].steps[l].color = 1
           /\ result[1].steps[l - 1].action = "backtrack"

(* C14: a done step is always the last step of the trace (nothing is
   appended once it is recorded), names no vertex and no colour, is preceded
   at once by the assign step of the last vertex of the order, and its
   snapshot covers every vertex; a successful search returns a trace with
   exactly that one done step, whose snapshot is the returned assignment. *)
C14_FirstSuccess ==
    \A p \in Procs :
        LET st == steps[p]
            n == Len(nodes[p])
        IN /\ \A j \in 1..Len(st) :
                  st[j].action = "done" =>
                      /\ j = Len(st)
                      /\ st[j].node = "" /\ st[j].color = None
                      /\ DOMAIN st[j].partial = Range(nodes[p])
                      /\ j >= 2
                      /\ st[j - 1].action = "assign"
                      /\ st[j - 1].node = nodes[p][n]
                      /\ st[j - 1].partial = st[j].partial
           /\ (Returned(p) /\ Admitted(req[p])) =>
                  /\ result[p].steps = st
                  /\ result[p].ok <=> HasStep(st, "done")
                  /\ result[p].ok => st[Len(st)].partial = result[p].colors

\* A success reached after undoing colours: done is the last of many steps.
C14_Witness ==
    /\ Returned(1) /\ result[1].ok
    /\ HasStep(steps[1], "backtrack")
    /\ steps[1][Len(steps[1])].action = "done"

(* C15: in the returned trace every backtrack(u,c) step comes after the
   assign(u,c) step of the same visit, with only steps of later vertices in
   between and the failure of the next vertex's last colour right before it;
   its snapshot equals that assign's, maps u to c and holds exactly the
   vertices up to u in the order; the step after it, if any, has a snapshot
   without u and is try(u,c+1) or a backtrack of the vertex before u, and
   only the backtrack of the first vertex's last colour ends a trace.  In
   every state whose last recorded step is backtrack(u,c), u is in the live
   assignment exactly until line 83 has run. *)
C15_BacktrackProtocol ==
    \A p \in Procs :
        /\ (Returned(p) /\ Admitted(req[p])) =>
               LET st == result[p].steps
                   ns == nodes[p]
                   k == req[p].k_colors
               IN \A j \in 1..Len(st) :
                      st[j].action = "backtrack" =>
                          LET u == st[j].node
                              c == st[j].color
                              snap == st[j].partial
                              idx == IndexIn(ns, u)
                          IN /\ \E l \in 1..(j - 1) :
                                    /\ st[l] = Step("assign", u, c, snap)
                                    /\ \A m \in (l + 1)..(j - 1) :
                                           /\ st[m].action # "done"
                                           /\ IndexIn(ns, st[m].node) > idx
                             /\ st[j - 1].action \in {"conflict", "backtrack"}
                             /\ st[j - 1].node = ns[idx + 1] /\ st[j - 1].color = k - 1
                             /\ snap[u] = c
                             /\ DOMAIN snap = {ns[m] : m \in 1..idx}
                             /\ j < Len(st) =>
                                    /\ u \notin DOMAIN st[j + 1].partial
                                    /\ \/ st[j + 1].action = "try"
                                          /\ st[j + 1].node = u /\ st[j + 1].color = c + 1
                                       \/ st[j + 1].action = "backtrack"
                                          /\ idx > 1 /\ st[j + 1].node = ns[idx - 1]
                             /\ j = Len(st) => idx = 1 /\ c = k - 1 /\ ~result[p].ok
        /\ (steps[p] # <<>> /\ steps[p][Len(steps[p])].action = "backtrack") =>
               (steps[p][Len(steps[p])].node \in DOMAIN colors[p] <=> pc[p] = "l83")

\* A returned trace where a backtrack is followed by the next colour of the
\* same vertex and another by the backtrack of the vertex before.
C15_Witness ==
    /\ Returned(1) /\ Admitted(req[1])
    /\ \E j \in 1..(Len(result[1].steps) - 1) : \E l \in 1..(Len(result[1].steps) - 1) :
           /\ result[1].steps[j].action = "backtrack"
           /\ result[1].steps[j + 1].action = "try"
           /\ result[1].steps[l].action = "backtrack"
           /\ result[1].steps[l + 1].action = "backtrack"

\* The live assignment covers the first j vertices of the order, with
\* colours of [0,k) that differ along every edge.
PrefixColoured(p) ==
    /\ \E j \in 0..Len(nodes[p]) : DOMAIN colors[p] = {nodes[p][m] : m \in 1..j}
    /\ \A u \in DOMAIN colors[p] :
           /\ colors[p][u] \in 0..(req[p].k_colors - 1)
           /\ \A j \in 1..Len(adj[p].nbrs[u]) :
                  adj[p].nbrs[u][j] \in DOMAIN colors[p] =>
                      colors[p][adj[p].nbrs[u][j]] # colors[p][u]

\* Nothing is coloured before the first step of the search.
EmptyAtStart(p) ==
    (pc[p] \in {"l98", "l100", "l102", "l65"} \/ (steps[p] = <<>> /\ pc[p] = "l70")) =>
        colors[p] = EmptyDict

FullyColoured(p) ==
    nodes[p] # <<>> /\ DOMAIN colors[p] = Range(nodes[p])

\* The Success state: backtrack(n) has been entered (line 70 holds), or True
\* is on its way up the call chain, or solve has returned ok.
InSuccess(p) ==
    \/ (pc[p] = "l70" /\ Top(p).i = Len(nodes[p]))
    \/ (pc[p] \in {"l79", "l88"} /\ ret[p])
    \/ (Returned(p) /\ result[p].ok)

(* C16 as stated: the live assignment always covers a prefix of the order
   with colours of [0,k) and no edge joining equal colours, is empty at the
   start, and holds all n vertices only in the successful terminal state. *)
C16_FullOnlyInSuccess ==
    \A p \in Procs :
        /\ PrefixColoured(p)
        /\ EmptyAtStart(p)
        /\ FullyColoured(p) => InSuccess(p)

(* C16 amended: the live assignment always covers a prefix of the order with
   colours of [0,k) and no edge joining equal colours, is empty at the start,
   and holds all n vertices only from the commit of the last vertex's colour
   (line 77, before its assign step is recorded) on: in that state of the
   last frame, and then in the Success state. *)
C16_PrefixInvariant ==
    \A p \in Procs :
        /\ PrefixColoured(p)
        /\ EmptyAtStart(p)
        /\ FullyColoured(p) =>
               \/ InSuccess(p)
               \/ /\ pc[p] = "l78"
                  /\ Top(p).i = Len(nodes[p]) - 1
                  /\ steps[p][Len(steps[p])].action = "try"

\* The last vertex's colour was committed after an earlier undo; its assign
\* step and done are still to be recorded.
C16_Witness ==
    /\ FullyColoured(1)
    /\ pc[1] = "l78"
    /\ HasStep(steps[1], "backtrack")
    /\ ~HasStep(steps[1], "done")

RECURSIVE GeometricSum(_, _)
\* k + k^2 + ... + k^n
GeometricSum(k, n) == IF n = 0 THEN 0 ELSE k * (1 + GeometricSum(k, n - 1))

TryCount(st) == Cardinality({j \in 1..Len(st) : st[j].action = "try"})

\* The last recorded step, when it is a try, repeats no earlier trial; as the
\* steps only grow, holding in every state this makes all trials distinct.
NoRepeatedTrial(p) ==
    LET st == steps[p]
        n  == Len(st)
    IN (n > 0 /\ st[n].action = "try") =>
           \A j \in 1..(n - 1) :
               ~ /\ st[j].action = "try"
                 /\ st[j].node = st[n].node
                 /\ st[j].color = st[n].color
                 /\ st[j].partial = st[n].partial

TryBound(p) ==
    TryCount(steps[p]) <= GeometricSum(req[p].k_colors, Len(nodes[p]))

TrialsBounded == \A p \in Procs : NoRepeatedTrial(p) /\ TryBound(p)

\* The search has ended in Success (done is the last step, every vertex is
\* coloured) or in Failure (no done step, nothing is coloured).
SearchEnded(p) ==
    /\ Returned(p)
    /\ Admitted(req[p]) =>
           \/ /\ result[p].ok
              /\ result[p].steps[Len(result[p].steps)].action = "done"
              /\ DOMAIN result[p].colors = Range(nodes[p])
           \/ /\ ~result[p].ok
              /\ ~HasStep(result[p].steps, "done")
              /\ colors[p] = EmptyDict

(* C17: every call ends, an admitted one with the search in Success or in
   Failure; no (assignment, vertex, colour) trial is recorded twice and the
   try steps number at most k + k^2 + ... + k^n. *)
C17_Termination == <>SearchEnded(1) /\ []TrialsBounded

\* A search that tried more colours than there are vertices, undid a choice,
\* and ended.
C17_Witness ==
    /\ Returned(1)
    /\ Admitted(req[1])
    /\ HasStep(result[1].steps, "backtrack")
    /\ TryCount(result[1].steps) > Len(nodes[1])

\* Some neighbour of u is in the assignment d with the colour c.
NeighbourHasColour(a, u, c, d) ==
    \E v \in NeighbourSet(a, u) : v \in DOMAIN d /\ d[v] = c

(* C18: compatible returns false exactly when some neighbour of u is in the
   assignment with the colour c; if no neighbour is in the assignment it
   returns true; and the assignment and the graph are after the call what
   they were before it. *)
C18_ConstraintChecker ==
    bld.pc = "c1" =>
        /\ bld.out = ~NeighbourHasColour(bld.adj, bld.u, bld.color, bld.cols)
        /\ NeighbourSet(bld.adj, bld.u) \cap DOMAIN bld.cols = {} => bld.out
        /\ bld.colsAfter = bld.cols
        /\ bld.adjAfter = bld.adj

\* The call returned true for colour 0 on a vertex with an uncoloured
\* neighbour and a neighbour of another colour.
C18_Witness ==
    /\ bld.pc = "c1"
    /\ bld.out
    /\ bld.color = 0
    /\ \E v \in NeighbourSet(bld.adj, bld.u) : v \notin DOMAIN bld.cols
    /\ \E v \in NeighbourSet(bld.adj, bld.u) : v \in DOMAIN bld.cols

\* Some proper colouring with colours of [0,k) comes before r when the two
\* are read as colour sequences along ns: it agrees with r on the first
\* j - 1 vertices and has a smaller colour on vertex j.
LexSmallerProper(es, ns, k, r) ==
    \E j \in 1..Len(ns) :
        \E c \in 0..(r[ns[j]] - 1) :
            \E g \in [{ns[m] : m \in (j + 1)..Len(ns)} -> 0..(k - 1)] :
                ProperOn(es, [u \in Range(ns) |->
                                 IF u = ns[j] THEN c
                                 ELSE IF IndexIn(ns, u) < j THEN r[u] ELSE g[u]])

(* C19: the colouring returned on success is a proper colouring of the
   filtered graph with colours of [0,k), no proper colouring comes before it
   in the lexicographic order of the colour sequences along the order of
   order_nodes, and the first vertex of that order has colour 0. *)
C19_LexSmallest ==
    \A p \in Procs :
        (Returned(p) /\ result[p].ok) =>
            LET es == ValidEdges(req[p])
                r  == result[p].colors
            IN /\ r \in [Range(nodes[p]) -> 0..(req[p].k_colors - 1)]
               /\ ProperOn(es, r)
               /\ ~LexSmallerProper(es, nodes[p], req[p].k_colors, r)
               /\ r[nodes[p][1]] = 0

\* A success found after an undo: the colouring first reached was given up
\* for a later one in the order.
C19_Witness ==
    /\ Returned(1)
    /\ result[1].ok
    /\ HasStep(result[1].steps, "backtrack")
    /\ \E u \in DOMAIN result[1].colors : result[1].colors[u] > 0

CountOf(st, action) == Cardinality({j \in 1..Len(st) : st[j].action = action})

\* Assign steps minus backtrack steps.
Balance(st) == CountOf(st, "assign") - CountOf(st, "backtrack")

Size(d) == Cardinality(DOMAIN d)

\* How the search ended: with every vertex coloured, or with none.
BalancedAtEnd(p) ==
    (pc[p] \in {"l88", "returned"} /\ Admitted(req[p])) =>
        IF ret[p]
        THEN Balance(steps[p]) = Len(nodes[p])
        ELSE /\ CountOf(steps[p], "assign") = CountOf(steps[p], "backtrack")
             /\ colors[p] = EmptyDict

(* C20 as stated: after every prefix of the steps, assign steps minus
   backtrack steps is the size of the assignment as it is when the last step
   of the prefix is recorded, which is the size of that step's snapshot; a
   failed search ends with equal counts and nothing coloured, a successful
   one with a difference of n. *)
C20_BalanceEveryPrefix ==
    \A p \in Procs :
        /\ \A j \in 1..Len(steps[p]) :
               Balance(SubSeq(steps[p], 1, j)) = Size(steps[p][j].partial)
        /\ BalancedAtEnd(p)

(* C20 amended: assign steps minus backtrack steps is the size of the live
   assignment except in two windows, where the assignment is larger by one:
   from the commit of a colour to its assign step (lines 77-78) and from a
   backtrack step to the removal it announces (lines 82-83); so a prefix that
   ends with a backtrack step has a balance one below the size of that
   step's snapshot. A failed search ends with equal counts and nothing
   coloured, a successful one with a difference of n. *)
C20_PushPopBalance ==
    \A p \in Procs :
        LET st == steps[p]
        IN /\ Balance(st) =
                  Size(colors[p]) - (IF pc[p] \in {"l78", "l83"} THEN 1 ELSE 0)
           /\ st # <<>> =>
                  Balance(st) = Size(st[Len(st)].partial)
                                - (IF st[Len(st)].action = "backtrack" THEN 1 ELSE 0)
           /\ BalancedAtEnd(p)

\* A failed search that assigned and undid colours, at its end.
C20_Witness ==
    /\ Returned(1)
    /\ ~result[1].ok
    /\ CountOf(result[1].steps, "backtrack") > 1
    /\ CountOf(result[1].steps, "assign") = CountOf(result[1].steps, "backtrack")

====
